---- MODULE Spec2Model ----
(***************************************************************************)
(* The capture / review / analyze screen of face-scanner:                  *)
(* src/app/(tabs)/index.tsx, component IndexScreen.                        *)
(*                                                                         *)
(* The React state of the component is the state of the model.  A handler  *)
(* that awaits (onCapture, onAnalyze) is split at its await: the part      *)
(* before the await runs when the handler is invoked and leaves a pending  *)
(* call behind, which carries what the handler reads after the await of    *)
(* the values it closed over (the captureSlot and the photos of the render *)
(* it was created in).  The part after the await runs when the pending     *)
(* call settles and reads those closed-over values, as the JavaScript      *)
(* does.  The Flip button (facing) touches nothing else and is left out.   *)
(***************************************************************************)
EXTENDS Naturals, Sequences, FiniteSets, Bags

VARIABLES
    permission,   \* useCameraPermissions: "unknown" | "denied" | "granted"
    isReady,      \* useState(false)
    photos,       \* useState<Slot[]>: 0..2 -> [label, uri]
    captureSlot,  \* useState(0)
    currentIndex, \* useState(0)
    captureMode,  \* useState(true)
    loading,      \* useState(false)
    result,       \* useState(null)
    capturing,    \* takePictureAsync calls awaiting completion, with their closures
    analyzing,    \* mockAnalyze calls awaiting completion, with their arguments
    nextUri,      \* number of the next picture the camera hands out
    op,           \* history: the operation that made the last step
    pre           \* history: the component's state before the last step

vars == <<permission, isReady, photos, captureSlot, currentIndex, captureMode,
          loading, result, capturing, analyzing, nextUri, op, pre>>

(***************************************************************************)
(* Bounds of the model.                                                    *)
(***************************************************************************)
\* pictures the camera delivers in one run
MaxPhotos == 6
\* takePictureAsync calls awaiting completion at once
MaxCapturing == 2
\* mockAnalyze calls awaiting completion at once
MaxAnalyzing == 2

(***************************************************************************)
(* Types and constants of the source.                                      *)
(***************************************************************************)
Slots == {0, 1, 2}

Labels == <<"Front", "Left", "Right">>

NullUri == 0

Null == <<>>

Report ==
    [skinType |-> "Combination",
     concerns |-> <<"Dry patches", "Mild acne", "Uneven tone">>,
     confidencePct |-> 86,
     recommendations |-> <<"Gentle gel cleanser AM/PM",
                           "Niacinamide serum 5% daily",
                           "Non-comedogenic moisturizer",
                           "SPF 50 broad-spectrum">>]

EmptyPhotos ==
    [i \in Slots |-> [label |-> Labels[i + 1], uri |-> NullUri]]

(***************************************************************************)
(* Values derived in the render.                                           *)
(***************************************************************************)
\* photos.every((p) => !!p.uri)
allCaptured ==
    \A i \in Slots : photos[i].uri # NullUri

\* the slots of ph that hold an image
Filled(ph) ==
    {i \in Slots : ph[i].uri # NullUri}

\* what the preview shows of the analysis: the spinner while loading, the
\* result card when a result is stored, the Analyze button otherwise
StatusOf(l, r) ==
    IF l THEN "Pending" ELSE IF r # Null THEN "Completed" ELSE "Idle"

Status ==
    StatusOf(loading, result)

\* camRef.current: set while the CameraView is mounted
camRefCurrent ==
    permission = "granted" /\ captureMode

\* the state the presentation layer reads
Snapshot ==
    [photos |-> photos, captureSlot |-> captureSlot,
     currentIndex |-> currentIndex, captureMode |-> captureMode,
     loading |-> loading, result |-> result, isReady |-> isReady,
     capturing |-> capturing, analyzing |-> analyzing]

\* the pending calls are kept as bags: a call is told from another only by
\* what it closed over, and any of them may settle next
Pending(b) == BagCardinality(b)

WithCall(b, c) == b (+) SetToBag({c})

WithoutCall(b, c) == b (-) SetToBag({c})

(***************************************************************************)
(* The state after the first render.                                       *)
(***************************************************************************)
\* a slip: the screen opens on the preview, useState(false) for captureMode
Init_PreviewFirst ==
    /\ permission = "unknown"
    /\ isReady = FALSE
    /\ photos = EmptyPhotos
    /\ captureSlot = 0
    /\ currentIndex = 0
    /\ captureMode = FALSE
    /\ loading = FALSE
    /\ result = Null
    /\ capturing = EmptyBag
    /\ analyzing = EmptyBag
    /\ nextUri = 1
    /\ op = "init"
    /\ pre = Snapshot

Init ==
    /\ permission = "unknown"
    /\ isReady = FALSE
    /\ photos = EmptyPhotos
    /\ captureSlot = 0
    /\ currentIndex = 0
    /\ captureMode = TRUE
    /\ loading = FALSE
    /\ result = Null
    /\ capturing = EmptyBag
    /\ analyzing = EmptyBag
    /\ nextUri = 1
    /\ op = "init"
    /\ pre = Snapshot

\* every step records the operation and the state it started from
Step(name) ==
    /\ op' = name
    /\ pre' = Snapshot

(***************************************************************************)
(* Camera permission and readiness.                                        *)
(***************************************************************************)
\* useEffect / the Grant button: requestPermission() settles either way
RequestPermission ==
    /\ permission # "granted"
    /\ \E p \in {"granted", "denied"} : permission' = p
    /\ Step("requestPermission")
    /\ UNCHANGED <<isReady, photos, captureSlot, currentIndex, captureMode,
                   loading, result, capturing, analyzing, nextUri>>

\* <CameraView onCameraReady={() => setIsReady(true)} />; once isReady is true
\* the call sets the value the state already has, which is no step
OnCameraReady ==
    /\ camRefCurrent
    /\ ~isReady
    /\ isReady' = TRUE
    /\ Step("onCameraReady")
    /\ UNCHANGED <<permission, photos, captureSlot, currentIndex, captureMode,
                   loading, result, capturing, analyzing, nextUri>>

(***************************************************************************)
(* onCapture.                                                              *)
(***************************************************************************)
\* a slip: the new array is built without copying prev
SavePhoto_DropsOthers(prev, slot, uri) ==
    [i \in Slots |-> [label |-> prev[i].label,
                      uri |-> IF i = slot THEN uri ELSE NullUri]]

\* setPhotos((prev) => { next[captureSlot] = { ...next[captureSlot], uri } })
SavePhoto(prev, slot, uri) ==
    [prev EXCEPT ![slot] = [label |-> prev[slot].label, uri |-> uri]]

\* what onCapture reads after its await of the render it was created in:
\* captureSlot, and of photos which slots have no uri
Closure ==
    [captureSlot |-> captureSlot,
     empty |-> {i \in Slots : photos[i].uri = NullUri}]

\* the indices [0, 1, 2].find() accepts, read from the handler's closure
EmptyOthers(cl) ==
    {i \in cl.empty : i # cl.captureSlot}

\* a slip: the last index accepted instead of the first
First_Last(S) ==
    CHOOSE i \in S : \A j \in S : i >= j

\* find() returns the first index accepted
First(S) ==
    CHOOSE i \in S : \A j \in S : i <= j

\* a slip: the guard on camRef.current and isReady left out
OnCapture_NoGuard ==
    /\ permission = "granted"
    /\ Pending(capturing) < MaxCapturing
    /\ capturing' = WithCall(capturing, Closure)
    /\ op' = "onCapture:await"
    /\ pre' = Snapshot
    /\ UNCHANGED <<permission, isReady, photos, captureSlot, currentIndex,
                   captureMode, loading, result, analyzing, nextUri>>

\* onCapture up to its await: the guard, then the call of takePictureAsync
OnCapture ==
    /\ permission = "granted"
    /\ IF ~camRefCurrent \/ ~isReady
         THEN /\ Step("onCapture:notReady")
              /\ UNCHANGED capturing
         ELSE /\ Pending(capturing) < MaxCapturing
              /\ capturing' = WithCall(capturing, Closure)
              /\ Step("onCapture:await")
    /\ UNCHANGED <<permission, isReady, photos, captureSlot, currentIndex,
                   captureMode, loading, result, analyzing, nextUri>>

\* a slip: setResult(null) left out
AfterCapture_KeepsResult(cl, uri) ==
    /\ photos' = SavePhoto(photos, cl.captureSlot, uri)
    /\ UNCHANGED result
    /\ IF EmptyOthers(cl) # {}
         THEN /\ captureSlot' = First(EmptyOthers(cl))
              /\ UNCHANGED <<currentIndex, captureMode>>
         ELSE /\ currentIndex' = cl.captureSlot
              /\ captureMode' = FALSE
              /\ UNCHANGED captureSlot

\* onCapture after its await, with the closure cl of the render that started it
AfterCapture(cl, uri) ==
    /\ photos' = SavePhoto(photos, cl.captureSlot, uri)
    /\ result' = Null
    /\ IF EmptyOthers(cl) # {}
         THEN /\ captureSlot' = First(EmptyOthers(cl))
              /\ UNCHANGED <<currentIndex, captureMode>>
         ELSE /\ currentIndex' = cl.captureSlot
              /\ captureMode' = FALSE
              /\ UNCHANGED captureSlot

\* takePictureAsync resolves with a new picture
CaptureResolved(cl) ==
    /\ cl \in BagToSet(capturing)
    /\ nextUri <= MaxPhotos
    /\ AfterCapture(cl, nextUri)
    /\ capturing' = WithoutCall(capturing, cl)
    /\ nextUri' = nextUri + 1
    /\ Step("onCapture:captured")
    /\ UNCHANGED <<permission, isReady, loading, analyzing>>

\* takePictureAsync rejects: catch (e) { console.warn(...) }
CaptureRejected(cl) ==
    /\ cl \in BagToSet(capturing)
    /\ capturing' = WithoutCall(capturing, cl)
    /\ Step("onCapture:failed")
    /\ UNCHANGED <<permission, isReady, photos, captureSlot, currentIndex,
                   captureMode, loading, result, analyzing, nextUri>>

(***************************************************************************)
(* onAnalyze.                                                              *)
(***************************************************************************)
\* photos.map((p) => p.uri).filter(Boolean)
allUris ==
    SelectSeq(<<photos[0].uri, photos[1].uri, photos[2].uri>>,
              LAMBDA u : u # NullUri)

\* a slip: the guard on allUris.length left out
OnAnalyze_NoGuard ==
    /\ permission = "granted"
    /\ Pending(analyzing) < MaxAnalyzing
    /\ loading' = TRUE
    /\ analyzing' = WithCall(analyzing, allUris)
    /\ op' = "onAnalyze:await"
    /\ pre' = Snapshot
    /\ UNCHANGED <<permission, isReady, photos, captureSlot, currentIndex,
                   captureMode, result, capturing, nextUri>>

\* onAnalyze up to its await: the guard, setLoading(true), the call of mockAnalyze
OnAnalyze ==
    /\ permission = "granted"
    /\ IF Len(allUris) < 3
         THEN /\ Step("onAnalyze:notReady")
              /\ UNCHANGED <<loading, analyzing>>
         ELSE /\ Pending(analyzing) < MaxAnalyzing
              /\ loading' = TRUE
              /\ analyzing' = WithCall(analyzing, allUris)
              /\ Step("onAnalyze:await")
    /\ UNCHANGED <<permission, isReady, photos, captureSlot, currentIndex,
                   captureMode, result, capturing, nextUri>>

\* a slip: the result is dropped
AfterAnalyze_DropsResult(r) ==
    /\ result' = Null
    /\ loading' = FALSE

\* onAnalyze after its await: setResult(r), then finally setLoading(false)
AfterAnalyze(r) ==
    /\ result' = r
    /\ loading' = FALSE

\* mockAnalyze resolves (it never rejects)
AnalyzeResolved(uris) ==
    /\ uris \in BagToSet(analyzing)
    /\ AfterAnalyze(Report)
    /\ analyzing' = WithoutCall(analyzing, uris)
    /\ Step("onAnalyze:resolved")
    /\ UNCHANGED <<permission, isReady, photos, captureSlot, currentIndex,
                   captureMode, capturing, nextUri>>

\* a slip: setLoading(false) after the await, outside any finally
AfterAnalyzeFailed_NoFinally ==
    UNCHANGED <<loading, result>>

\* onAnalyze when its await throws: setResult is skipped, finally
\* setLoading(false) runs, the rejection leaves the handler uncaught
AfterAnalyzeFailed ==
    /\ loading' = FALSE
    /\ UNCHANGED result

\* the analysis call rejects; mockAnalyze never does, a service behind the
\* same signature can
AnalyzeRejected(uris) ==
    /\ uris \in BagToSet(analyzing)
    /\ AfterAnalyzeFailed
    /\ analyzing' = WithoutCall(analyzing, uris)
    /\ Step("onAnalyze:failed")
    /\ UNCHANGED <<permission, isReady, photos, captureSlot, currentIndex,
                   captureMode, capturing, nextUri>>

(***************************************************************************)
(* The synchronous handlers.                                               *)
(***************************************************************************)
OnRetakeAll ==
    /\ permission = "granted"
    /\ photos' = EmptyPhotos
    /\ captureSlot' = 0
    /\ currentIndex' = 0
    /\ result' = Null
    /\ captureMode' = TRUE
    /\ Step("onRetakeAll")
    /\ UNCHANGED <<permission, isReady, loading, capturing, analyzing, nextUri>>

\* a slip: "Retake This Angle" empties the slot it is about to retake
OnRetakeThis_ClearsSlot ==
    /\ permission = "granted"
    /\ captureSlot' = currentIndex
    /\ captureMode' = TRUE
    /\ photos' = SavePhoto(photos, currentIndex, NullUri)
    /\ Step("onRetakeThis")
    /\ UNCHANGED <<permission, isReady, currentIndex, loading, result,
                   capturing, analyzing, nextUri>>

\* "Capture/Retake This Angle"
OnRetakeThis ==
    /\ permission = "granted"
    /\ captureSlot' = currentIndex
    /\ captureMode' = TRUE
    /\ Step("onRetakeThis")
    /\ UNCHANGED <<permission, isReady, photos, currentIndex, loading, result,
                   capturing, analyzing, nextUri>>

\* a slip: the left arrow steps the same way as the right one
PrevIndex_Forward(i) ==
    (i + 1) % 3

\* (i) => (i + 2) % 3
PrevIndex(i) ==
    (i + 2) % 3

\* a slip: the index is not wrapped
NextIndex_NoWrap(i) ==
    i + 1

\* (i) => (i + 1) % 3
NextIndex(i) ==
    (i + 1) % 3

OnPrev ==
    /\ permission = "granted"
    /\ currentIndex' = PrevIndex(currentIndex)
    /\ Step("onPrev")
    /\ UNCHANGED <<permission, isReady, photos, captureSlot, captureMode,
                   loading, result, capturing, analyzing, nextUri>>

\* a slip: the right arrow also moves the slot the camera captures into
OnNext_MovesCapture ==
    /\ permission = "granted"
    /\ currentIndex' = NextIndex(currentIndex)
    /\ captureSlot' = NextIndex(currentIndex)
    /\ Step("onNext")
    /\ UNCHANGED <<permission, isReady, photos, captureMode, loading,
                   result, capturing, analyzing, nextUri>>

OnNext ==
    /\ permission = "granted"
    /\ currentIndex' = NextIndex(currentIndex)
    /\ Step("onNext")
    /\ UNCHANGED <<permission, isReady, photos, captureSlot, captureMode,
                   loading, result, capturing, analyzing, nextUri>>

(***************************************************************************)
(* What the render offers the user.                                        *)
(***************************************************************************)
\* captureMode ? <camera screen> : <preview carousel>
CameraShown ==
    permission = "granted" /\ captureMode

PreviewShown ==
    permission = "granted" /\ ~captureMode

\* <TouchableOpacity disabled={!isReady} onPress={onCapture} />
CaptureButtonEnabled ==
    CameraShown /\ isReady

\* a slip: the Analyze button stays on the screen while a report is shown
AnalyzeButtonEnabled_WithResult ==
    PreviewShown /\ ~loading /\ allCaptured

\* a slip: the button is not hidden while loading
AnalyzeButtonEnabled_WhileLoading ==
    PreviewShown /\ result = Null /\ allCaptured

\* {!result && !loading && <TouchableOpacity disabled={!allCaptured} .../>}
AnalyzeButtonEnabled ==
    PreviewShown /\ result = Null /\ ~loading /\ allCaptured

PressCapture ==
    CaptureButtonEnabled /\ OnCapture

PressAnalyze ==
    AnalyzeButtonEnabled /\ OnAnalyze

PressRetakeThis ==
    PreviewShown /\ OnRetakeThis

PressRetakeAll ==
    PreviewShown /\ OnRetakeAll

PressPrev ==
    PreviewShown /\ OnPrev

PressNext ==
    PreviewShown /\ OnNext

(***************************************************************************)
(* Spec: the screen as the user can drive it.                              *)
(***************************************************************************)
CaptureResolves ==
    \E cl \in BagToSet(capturing) : CaptureResolved(cl)

CaptureFails ==
    \E cl \in BagToSet(capturing) : CaptureRejected(cl)

AnalyzeSettles ==
    \E uris \in BagToSet(analyzing) : AnalyzeResolved(uris)

Next ==
    \/ RequestPermission
    \/ OnCameraReady
    \/ PressCapture
    \/ CaptureResolves
    \/ CaptureFails
    \/ PressAnalyze
    \/ AnalyzeSettles
    \/ PressRetakeThis
    \/ PressRetakeAll
    \/ PressPrev
    \/ PressNext

Spec == Init /\ [][Next]_vars

\* the timer of mockAnalyze always fires: a pending call settles
FairSpec == Spec /\ WF_vars(AnalyzeSettles)

(***************************************************************************)
(* SpecGuards: Spec, and onCapture and onAnalyze also called in the states *)
(* their own guards reject, which the render never does (it disables the   *)
(* capture button until the camera is ready, mounts it with the camera,    *)
(* and disables the Analyze button until every slot is filled).  Every     *)
(* behaviour of Spec is a behaviour of SpecGuards.                         *)
(***************************************************************************)
CallCaptureNotReady ==
    (~camRefCurrent \/ ~isReady) /\ OnCapture

CallAnalyzeNotAllCaptured ==
    ~allCaptured /\ OnAnalyze

NextGuards ==
    \/ Next
    \/ CallCaptureNotReady
    \/ CallAnalyzeNotAllCaptured

SpecGuards == Init /\ [][NextGuards]_vars

(***************************************************************************)
(* The screen with an analysis call that may reject, as a service put in   *)
(* the place of mockAnalyze can.                                           *)
(***************************************************************************)
AnalyzeFails ==
    \E uris \in BagToSet(analyzing) : AnalyzeRejected(uris)

NextFailing ==
    \/ Next
    \/ AnalyzeFails

SpecFailing == Init /\ [][NextFailing]_vars

(***************************************************************************)
(* Properties.                                                             *)
(***************************************************************************)
Captured == op = "onCapture:captured"

AnalyzeCalled == op \in {"onAnalyze:notReady", "onAnalyze:await"}

\* the slots whose image the last step changed
Changed == {i \in Slots : photos[i] # pre.photos[i]}

\* C1: a successful capture made while an analysis result is shown (status
\* Completed) leaves status Idle with no result stored and loading false; and
\* until then nothing but a capture or Retake All ends Completed, so status is
\* still Completed when the capture that follows "Retake This Angle" arrives.
C1_ReplaceResetsAnalysis ==
    /\ (Captured /\ StatusOf(pre.loading, pre.result) = "Completed")
          => (Status = "Idle" /\ result = Null /\ ~loading)
    /\ (StatusOf(pre.loading, pre.result) = "Completed"
           /\ op \notin {"onCapture:captured", "onRetakeAll"})
          => Status = "Completed"

\* a retake of one angle from a completed analysis has replaced the image
C1_Witness ==
    /\ Captured
    /\ StatusOf(pre.loading, pre.result) = "Completed"
    /\ pre.captureMode
    /\ Filled(pre.photos) = Slots
    /\ Changed = {pre.captureSlot}
    /\ Status = "Idle"

\* C2: after onRetakeAll every slot is empty, captureSlot = 0, currentIndex = 0,
\* the camera is shown and status is Idle, whatever the state it was called in.
C2_RetakeAllResets ==
    op = "onRetakeAll" =>
        /\ Filled(photos) = {}
        /\ captureSlot = 0
        /\ currentIndex = 0
        /\ captureMode
        /\ Status = "Idle"

C4_CapturesSerialized ==
    Pending(capturing) <= 1

\* C5: onAnalyze called with fewer than three slots filled takes the rejecting
\* branch: no request is issued and no state changes.
C5_AnalyzeNotReadyNoEffect ==
    (AnalyzeCalled /\ Filled(pre.photos) # Slots) =>
        /\ op = "onAnalyze:notReady"
        /\ Snapshot = pre
        /\ Status = StatusOf(pre.loading, pre.result)

\* onAnalyze was called on two filled slots in status Idle
C5_Witness ==
    /\ op = "onAnalyze:notReady"
    /\ Cardinality(Filled(pre.photos)) = 2
    /\ Status = "Idle"
    /\ analyzing = EmptyBag

\* the capture that settled was the only one pending and had been started in
\* the state it settled in
SerialCapture ==
    /\ Captured
    /\ pre.capturing =
          SetToBag({[captureSlot |-> pre.captureSlot,
                     empty |-> Slots \ Filled(pre.photos)]})

\* the uris held in ph
Uris(ph) == {ph[i].uri : i \in Slots}

\* C6 as claimed: a successful capture does not decrease the number of filled
\* slots and fills exactly one slot that was empty, the active one.
C6_FillsOneEmptySlot ==
    Captured =>
        /\ Cardinality(Filled(photos)) >= Cardinality(Filled(pre.photos))
        /\ Filled(photos) \ Filled(pre.photos) = {pre.captureSlot}

\* C6 amended: a successful capture does not decrease the number of filled
\* slots and changes exactly one slot, the one that was captureSlot when that
\* capture was started; it gets an image no slot held, its label is kept.
C6_WritesOneSlot ==
    Captured =>
        /\ Cardinality(Filled(photos)) >= Cardinality(Filled(pre.photos))
        /\ \E cl \in BagToSet(pre.capturing) :
              /\ capturing = WithoutCall(pre.capturing, cl)
              /\ Changed = {cl.captureSlot}
        /\ \A i \in Changed :
              /\ photos[i].uri \notin Uris(pre.photos)
              /\ photos[i].label = pre.photos[i].label

\* a retake has replaced the image of a slot that was filled
C6_Witness ==
    /\ SerialCapture
    /\ Filled(pre.photos) = Slots
    /\ Changed = {pre.captureSlot}
    /\ Cardinality(Filled(photos)) = 3

\* C7: the step that fills the last empty slot ends in the preview, and the
\* preview with all slots filled is left only by "Retake This Angle" or
\* "Retake All".
C7_ReviewOnceAllFilled ==
    /\ (Filled(photos) = Slots /\ Filled(pre.photos) # Slots) => ~captureMode
    /\ (Filled(pre.photos) = Slots /\ ~pre.captureMode
           /\ op \notin {"onRetakeThis", "onRetakeAll"}) => ~captureMode

\* C8: captures made one after the other fill slots 0, 1, 2 in that order: from
\* the empty session the first leaves captureSlot = 1 with the camera shown,
\* the second captureSlot = 2 with the camera shown, the third the preview
\* with currentIndex = 2.
C8_ThreeCapturesInOrder ==
    /\ (SerialCapture /\ pre.captureMode /\ Filled(pre.photos) = {}
           /\ pre.captureSlot = 0)
          => (Filled(photos) = {0} /\ captureSlot = 1 /\ captureMode)
    /\ (SerialCapture /\ pre.captureMode /\ Filled(pre.photos) = {0}
           /\ pre.captureSlot = 1)
          => (Filled(photos) = {0, 1} /\ captureSlot = 2 /\ captureMode)
    /\ (SerialCapture /\ pre.captureMode /\ Filled(pre.photos) = {0, 1}
           /\ pre.captureSlot = 2)
          => (Filled(photos) = Slots /\ ~captureMode /\ currentIndex = 2)

\* the third picture of a fresh session has just filled slot 2
C8_Witness ==
    /\ SerialCapture
    /\ nextUri = 4
    /\ photos[0].uri = 1 /\ photos[1].uri = 2 /\ photos[2].uri = 3
    /\ pre.captureSlot = 2
    /\ ~captureMode
    /\ currentIndex = 2

\* the moves of status C9 allows, with the operations that make them
StatusMoveAllowed ==
    LET from == StatusOf(pre.loading, pre.result) IN
    \/ from = Status
    \/ from = "Idle" /\ Status = "Pending" /\ op = "onAnalyze:await"
    \/ from = "Pending" /\ Status = "Completed" /\ op = "onAnalyze:resolved"
    \/ from = "Pending" /\ Status = "Idle" /\ op = "onAnalyze:failed"
    \/ from = "Completed" /\ Status = "Idle"
          /\ op \in {"onCapture:captured", "onRetakeAll"}

\* C9: onAnalyze called with all slots filled in status Idle leaves status
\* Pending with one request issued; status moves only Idle -> Pending by
\* onAnalyze, Pending -> Completed when the request resolves, Pending -> Idle
\* when it fails (mockAnalyze never does), Completed -> Idle by a capture or
\* Retake All; and a pending request leads to status Completed with the report
\* of mockAnalyze stored.
C9_AnalysisLifecycle ==
    /\ [](/\ (AnalyzeCalled /\ Filled(pre.photos) = Slots
                 /\ StatusOf(pre.loading, pre.result) = "Idle")
                => (Status = "Pending"
                      /\ analyzing = WithCall(pre.analyzing, allUris))
          /\ StatusMoveAllowed
          /\ (op = "onAnalyze:resolved")
                => (Status = "Completed" /\ result = Report))
    /\ (Status = "Pending") ~> (Status = "Completed" /\ result = Report)

\* the request issued from status Idle has resolved
C9_Witness ==
    /\ op = "onAnalyze:resolved"
    /\ StatusOf(pre.loading, pre.result) = "Pending"
    /\ Pending(pre.analyzing) = 1
    /\ Status = "Completed"
    /\ result = Report
    /\ allCaptured

\* C10: onCapture called while camRef.current is missing or isReady is false
\* returns at once, and a takePictureAsync that rejects is caught: in both
\* cases nothing the screen shows changes, and the capture button is as
\* enabled as it was.
C10_FailedCaptureNoEffect ==
    /\ (op \in {"onCapture:notReady", "onCapture:await"}
           /\ (~pre.captureMode \/ ~pre.isReady))
          => (op = "onCapture:notReady" /\ Snapshot = pre)
    /\ (op = "onCapture:failed") =>
          /\ \E cl \in BagToSet(pre.capturing) :
                Snapshot = [pre EXCEPT !.capturing = WithoutCall(pre.capturing, cl)]
          /\ CaptureButtonEnabled = (pre.captureMode /\ pre.isReady)

\* a takePictureAsync call has rejected while pictures were held
C10_Witness ==
    /\ op = "onCapture:failed"
    /\ captureMode
    /\ Filled(photos) = {0}
    /\ captureSlot = 1
    /\ capturing = EmptyBag

\* onCapture was called before the camera was ready
C10_WitnessNotReady ==
    /\ op = "onCapture:notReady"
    /\ captureMode
    /\ ~isReady

\* onCapture was called from the preview, where no camera is mounted
C10_WitnessNoCamera ==
    /\ op = "onCapture:notReady"
    /\ ~captureMode
    /\ isReady

\* C11: the carousel is cyclic: from the index shown, three onNext return to
\* it, three onPrev return to it, onPrev undoes onNext and onNext undoes
\* onPrev; and each press of an arrow moves the index by that one step.
C11_NavigationCyclic ==
    /\ NextIndex(NextIndex(NextIndex(currentIndex))) = currentIndex
    /\ PrevIndex(PrevIndex(PrevIndex(currentIndex))) = currentIndex
    /\ PrevIndex(NextIndex(currentIndex)) = currentIndex
    /\ NextIndex(PrevIndex(currentIndex)) = currentIndex
    /\ (op = "onNext") => (/\ currentIndex = NextIndex(pre.currentIndex)
                           /\ currentIndex # pre.currentIndex
                           /\ PrevIndex(currentIndex) = pre.currentIndex)
    /\ (op = "onPrev") => (/\ currentIndex = PrevIndex(pre.currentIndex)
                           /\ currentIndex # pre.currentIndex
                           /\ NextIndex(currentIndex) = pre.currentIndex)

\* the left arrow has wrapped from the first slot to the last
C11_Witness ==
    /\ op = "onPrev"
    /\ pre.currentIndex = 0
    /\ currentIndex = 2

\* no handler has run yet since the screen was created
Fresh == op \in {"init", "requestPermission", "onCameraReady"}

\* C12: a session that no handler has touched has every slot empty, the camera
\* shown, captureSlot = 0, currentIndex = 0 and status Idle with no result.
C12_FreshSession ==
    Fresh =>
        /\ Filled(photos) = {}
        /\ captureMode
        /\ captureSlot = 0
        /\ currentIndex = 0
        /\ Status = "Idle"
        /\ result = Null
        /\ ~loading

\* the camera of a new session is ready and nothing has been captured
C12_Witness ==
    /\ op = "onCameraReady"
    /\ permission = "granted"
    /\ isReady
    /\ photos = EmptyPhotos
    /\ captureMode

\* the slots of ph that hold no image
EmptyIn(ph) == Slots \ Filled(ph)

\* the first slot of E met when scanning c + 1, c + 2, ... modulo 3
CyclicFirst(c, E) ==
    IF (c + 1) % 3 \in E THEN (c + 1) % 3 ELSE (c + 2) % 3

\* C13: when a successful capture fills slot c and another slot is still
\* empty, captureSlot becomes the first empty slot met scanning c + 1, c + 2,
\* ... cyclically, the camera stays shown, and that slot is the first empty
\* slot in label order other than c.
C13_NextSlotSelection ==
    \A c \in Changed :
        (Captured /\ EmptyIn(photos) \ {c} # {}) =>
            /\ captureSlot = CyclicFirst(c, EmptyIn(photos) \ {c})
            /\ captureMode
            /\ CyclicFirst(c, EmptyIn(photos) \ {c}) = First(EmptyIn(photos) \ {c})

\* the same, for a capture that was alone in flight and was started from the
\* state it completes in
C13_Serial ==
    SerialCapture => C13_NextSlotSelection

\* C14: from the preview with all slots filled, "Retake This Angle" on slot k
\* sets captureSlot = k and shows the camera without changing a slot; one
\* successful capture made there returns to the preview with currentIndex = k,
\* a new image in slot k and every other slot as it was.
C14_SingleSlotRetake ==
    /\ (op = "onRetakeThis" /\ ~pre.captureMode /\ Filled(pre.photos) = Slots) =>
          /\ captureSlot = pre.currentIndex
          /\ captureMode
          /\ photos = pre.photos
    /\ (SerialCapture /\ pre.captureMode /\ Filled(pre.photos) = Slots) =>
          /\ ~captureMode
          /\ currentIndex = pre.captureSlot
          /\ Changed = {pre.captureSlot}
          /\ photos[pre.captureSlot].uri \notin Uris(pre.photos)
          /\ Filled(photos) = Slots

\* the middle slot has been retaken from a full preview
C14_Witness ==
    /\ SerialCapture
    /\ pre.captureMode
    /\ Filled(pre.photos) = Slots
    /\ pre.captureSlot = 1
    /\ ~captureMode
    /\ currentIndex = 1
    /\ Changed = {1}

\* "Retake This Angle" has just been pressed on a full preview
C14_WitnessRetake ==
    /\ op = "onRetakeThis"
    /\ ~pre.captureMode
    /\ Filled(pre.photos) = Slots
    /\ captureSlot = 2
    /\ captureMode

\* an arrow of the carousel was pressed
Navigated == op \in {"onPrev", "onNext"}

\* C15: the arrows are pressed only while the preview is shown, and a press
\* changes currentIndex only: the slots, captureSlot, captureMode, loading and
\* result (hence the status) are as before.
C15_NavigationFrame ==
    Navigated =>
        /\ ~pre.captureMode
        /\ currentIndex # pre.currentIndex
        /\ [Snapshot EXCEPT !.currentIndex = pre.currentIndex] = pre
        /\ Status = StatusOf(pre.loading, pre.result)

\* the right arrow was pressed while a report was shown, and the report stays
C15_Witness ==
    /\ op = "onNext"
    /\ ~captureMode
    /\ result = Report
    /\ pre.result = Report
    /\ currentIndex = NextIndex(pre.currentIndex)

\* C16: captureSlot and currentIndex are always in 0..2, and photos always has
\* the three slots, labelled Front, Left, Right in that order.
C16_IndicesAndLabels ==
    /\ captureSlot \in 0..2
    /\ currentIndex \in 0..2
    /\ DOMAIN photos = 0..2
    /\ Cardinality(DOMAIN photos) = 3
    /\ <<photos[0].label, photos[1].label, photos[2].label>>
          = <<"Front", "Left", "Right">>

\* the right arrow has wrapped from the last slot to the first, after a
\* retake moved captureSlot
C16_Witness ==
    /\ op = "onNext"
    /\ pre.currentIndex = 2
    /\ currentIndex = 0
    /\ captureSlot = 1
    /\ allCaptured

\* C17: a report is stored only in status Completed: never while a request is
\* in flight (loading together with a result) and never in Idle; pressing
\* Analyze gives Pending with no report stored.
C17_ReportOnlyWhenCompleted ==
    /\ ~(loading /\ result # Null)
    /\ (result # Null) => (Status = "Completed")
    /\ (Status = "Idle") => (result = Null)
    /\ (Pending(analyzing) > 0) => (result = Null)
    /\ (op = "onAnalyze:await") => (Status = "Pending" /\ result = Null)

\* Analyze was pressed on three photos of which one is a retake
C17_Witness ==
    /\ op = "onAnalyze:await"
    /\ Status = "Pending"
    /\ result = Null
    /\ nextUri > 4

\* C18: when the analysis call fails in status Pending, the status is Idle
\* again with no report stored, the slots, captureMode, captureSlot and
\* currentIndex are as before, and Analyze can be pressed again wherever the
\* preview shows three photos.
C18_FailedAnalysisToIdle ==
    (op = "onAnalyze:failed") =>
        /\ StatusOf(pre.loading, pre.result) = "Pending"
        /\ Status = "Idle"
        /\ result = Null
        /\ photos = pre.photos
        /\ captureMode = pre.captureMode
        /\ captureSlot = pre.captureSlot
        /\ currentIndex = pre.currentIndex
        /\ analyzing = EmptyBag
        /\ (PreviewShown /\ allCaptured) => AnalyzeButtonEnabled

\* the request has failed and the Analyze button is back
C18_Witness ==
    /\ op = "onAnalyze:failed"
    /\ Status = "Idle"
    /\ AnalyzeButtonEnabled

\* the uris of the request whose completion was the last step
SettledUris ==
    CHOOSE uris \in BagToSet(pre.analyzing) :
        analyzing = WithoutCall(pre.analyzing, uris)

\* the uris the slots hold now, in slot order
HeldUris == <<photos[0].uri, photos[1].uri, photos[2].uri>>

\* C19: a report is stored only by a request that was issued on the images
\* the slots hold now: a request issued before a later capture or Retake All
\* stores no report when it resolves.
C19_ReportIsForHeldImages ==
    (op = "onAnalyze:resolved" /\ result # Null) => (SettledUris = HeldUris)

\* C20: whenever the preview is shown, all three slots hold an image.
C20_PreviewHasAllSlots ==
    PreviewShown => allCaptured

====
